---- MODULE Spec2Model ----
(***************************************************************************)
(* A model of the sum_type crate (src/src/lib.rs): the sum_type! macro and *)
(* its helper macros as a rewriting system over declarations, and the code *)
(* they generate (From, TryFrom, SumType, defer!) as operations on values  *)
(* of the generated enum.                                                  *)
(***************************************************************************)
EXTENDS Integers, Sequences, FiniteSets, TLC

\* Longest variant list a declaration is drawn with.
MaxVariants == 3
\* Payload values of every type are drawn from 0..MaxPayload.
MaxPayload == 1

\* Identifiers the declarations are drawn from.
EnumNames == {"MySumType", "OneVariant"}
VariantNames == {"First", "Second", "Third"}
TypeNames == {"u32", "f64", "String"}

\* The payload-type slot of a variant entry written without "(type)".
NoType == "-"

Range(s) == {s[i] : i \in DOMAIN s}

SeqsUpTo(S, n) == UNION {[1..k -> S] : k \in 0..n}

\* One variant entry of a declaration as the user writes it: either
\* "Name(Type)," or the lazy "Type,".
Entries ==
    [ident : VariantNames, ty : TypeNames] \cup [ident : TypeNames, ty : {NoType}]

\* The token input of one sum_type! invocation.
Declarations ==
    [vis : {"pub", "default"}, name : EnumNames, entries : SeqsUpTo(Entries, MaxVariants)]

\* The fragment "$var_name:ident($var_ty:ty)," matches the entry.
MatchesExplicit(e) == e.ty # NoType

\* The fragment "$var_name:ident," matches the entry.
MatchesLazy(e) == e.ty = NoType

----------------------------------------------------------------------------
(* sum_type!: the four arms, tried in order *)

\* The first arm of sum_type! whose pattern matches the declaration, 0 when
\* none does.  The fourth arm's pattern is written as in the source.
SumTypeArm(d) ==
    IF d.vis = "pub" /\ \A i \in DOMAIN d.entries : MatchesExplicit(d.entries[i]) THEN 1
    ELSE IF d.vis = "default" /\ \A i \in DOMAIN d.entries : MatchesExplicit(d.entries[i]) THEN 2
    ELSE IF d.vis = "pub" /\ \A i \in DOMAIN d.entries : MatchesLazy(d.entries[i]) THEN 3
    ELSE IF d.vis = "default" /\ \A i \in DOMAIN d.entries : MatchesExplicit(d.entries[i]) THEN 4
    ELSE 0

\* Transcription of the lazy arms: "$var_name($var_name)" for each entry.
LazyRewrite(d) ==
    [d EXCEPT !.entries = [i \in DOMAIN d.entries |->
                              [ident |-> d.entries[i].ident, ty |-> d.entries[i].ident]]]

\* Transcription of the explicit arms: the "$var_name => $var_ty" list
\* handed to __sum_type_impls!.
ImplsArgs(d) == [i \in DOMAIN d.entries |-> [name |-> d.entries[i].ident, ty |-> d.entries[i].ty]]

----------------------------------------------------------------------------
(* the helper macros *)

\* The message compile_error! is given: concat!("The `", stringify!($enum_name),
\* "` type must have more than one variant"), kept as its three pieces
\* (without the two backquotes, which a string here cannot hold).
MoreThanOneVariantMsg(enum_name) ==
    <<"The ", enum_name, " type must have more than one variant">>

NoDiagnostic == <<>>
NoRulesExpected == <<"no rules expected this token in macro call">>

AssertAlwaysSilent(enum_name, pairs) == NoDiagnostic

\* __assert_multiple_variants!: the first arm takes exactly one
\* "$name => $variant_type", the second any comma-separated list of them.
AssertMultipleVariants(enum_name, pairs) ==
    IF Len(pairs) = 1 THEN MoreThanOneVariantMsg(enum_name) ELSE NoDiagnostic

FromFirstVariant(enum_name, pairs) ==
    {[ty |-> pairs[i].ty, variant |-> pairs[1].name] : i \in DOMAIN pairs}

\* __sum_type_from!: one "impl From<$variant_type> for $enum_name" per pair,
\* whose body is $enum_name::$name(other).
SumTypeFrom(enum_name, pairs) ==
    {[ty |-> pairs[i].ty, variant |-> pairs[i].name] : i \in DOMAIN pairs}

SumTypeTryFromShifted(enum_name, pairs) ==
    {[target |-> pairs[i].ty, pattern |-> pairs[(i % Len(pairs)) + 1].name,
      expected |-> pairs[i].name] : i \in DOMAIN pairs}

\* __sum_type_try_from!: one "impl TryFrom<$enum_name> for $variant_type" per
\* pair; the pattern is $enum_name::$name and the error names stringify!($name).
SumTypeTryFrom(enum_name, pairs) ==
    {[target |-> pairs[i].ty, pattern |-> pairs[i].name, expected |-> pairs[i].name] :
        i \in DOMAIN pairs}

\* __sum_type_trait!: the one "impl SumType for $enum_name"; its match arms
\* and its variants() array both repeat over the pairs in order.
SumTypeTrait(enum_name, pairs) ==
    [present |-> TRUE,
     arms |-> [i \in DOMAIN pairs |-> [pattern |-> pairs[i].name, name |-> pairs[i].name]],
     list |-> [i \in DOMAIN pairs |-> pairs[i].name]]

NoTrait == [present |-> FALSE, arms |-> <<>>, list |-> <<>>]

\* The enum item the explicit arms emit.
EnumItem(d) ==
    [present |-> TRUE, vis |-> d.vis, name |-> d.name, variants |-> ImplsArgs(d)]

NoEnum == [present |-> FALSE, vis |-> "default", name |-> "", variants |-> <<>>]

----------------------------------------------------------------------------
(* the generated code, as functions of the generated impls *)

NoPayload == [ty |-> "", v |-> 0]
NoValue == [live |-> FALSE, tag |-> "", payload |-> NoPayload]

\* Values of a payload type.
Payloads(T) == [ty : {T}, v : 0..MaxPayload]

\* The first arm of a match whose pattern is the value's variant.
MatchingArm(arms, self) ==
    CHOOSE i \in DOMAIN arms :
        /\ arms[i].pattern = self.tag
        /\ \A j \in 1..(i - 1) : arms[j].pattern # self.tag

\* From::from of the impl: $enum_name::$name(other).
From(impl, other) == [live |-> TRUE, tag |-> impl.variant, payload |-> other]

\* SumType::variant: "match *self", each arm yielding stringify!($name).
Variant(trait, self) ==
    [ret |-> trait.arms[MatchingArm(trait.arms, self)].name, evals |-> <<"match *self">>]

VariantsReversed(trait, self) ==
    [ret |-> [i \in DOMAIN trait.list |-> trait.list[Len(trait.list) + 1 - i]], evals |-> <<>>]

\* SumType::variants: the literal array of the names; self is not read.
Variants(trait, self) == [ret |-> trait.list, evals |-> <<>>]

\* Any::downcast_ref::<T> on the payload: present iff its TypeId is T's.
AnyDowncast(payload, T) == IF payload.ty = T THEN <<payload>> ELSE <<>>

DowncastRefAlways(trait, self, T) == <<self.payload>>

\* SumType::downcast_ref::<T>: "match *self", every arm
\* (value as &Any).downcast_ref::<T>().
DowncastRef(trait, self, T) == AnyDowncast(self.payload, T)

\* SumType::downcast_mut::<T>: as downcast_ref, through "ref mut value".
DowncastMut(trait, self, T) == AnyDowncast(self.payload, T)

\* SumType::variant_is::<T>: self.downcast_ref::<T>().is_some().
VariantIs(trait, self, T) == Len(DowncastRef(trait, self, T)) > 0

TryFromLazyVariant(impl, trait, other) ==
    LET matched == other.tag = impl.pattern
        variant == Variant(trait, other)
        variants == Variants(trait, other)
    IN  [ok |-> matched,
         value |-> IF matched THEN other.payload ELSE NoPayload,
         expected |-> IF matched THEN "" ELSE impl.expected,
         actual |-> IF matched THEN "" ELSE variant.ret,
         all |-> IF matched THEN <<>> ELSE variants.ret,
         evals |-> <<"if let">> \o (IF matched THEN <<>> ELSE variant.evals \o variants.evals)]

TryFromSwapped(impl, trait, other) ==
    LET variant == Variant(trait, other)
        variants == Variants(trait, other)
        matched == other.tag = impl.pattern
    IN  [ok |-> matched,
         value |-> IF matched THEN other.payload ELSE NoPayload,
         expected |-> IF matched THEN "" ELSE variant.ret,
         actual |-> IF matched THEN "" ELSE impl.expected,
         all |-> IF matched THEN <<>> ELSE variants.ret,
         evals |-> variant.evals \o variants.evals \o <<"if let">>]

\* TryFrom::try_from of the impl: variant() and variants() are called on
\* &other first, then "if let $enum_name::$name(value) = other".
TryFrom(impl, trait, other) ==
    LET variant == Variant(trait, other)
        variants == Variants(trait, other)
        matched == other.tag = impl.pattern
    IN  [ok |-> matched,
         value |-> IF matched THEN other.payload ELSE NoPayload,
         expected |-> IF matched THEN "" ELSE impl.expected,
         actual |-> IF matched THEN "" ELSE variant.ret,
         all |-> IF matched THEN <<>> ELSE variants.ret,
         evals |-> variant.evals \o variants.evals \o <<"if let">>]

\* The message of unreachable!("Unexpected variant, {}, for {}", ..), kept
\* as its pieces.
UnexpectedVariantMsg(variant, kind) == <<"Unexpected variant, ", variant, ", for ", kind>>

DeferArgsSwapped(kind, trait, variable, variants) ==
    [matched |-> variable.tag \in variants,
     item |-> variable.payload,
     panic |-> IF variable.tag \in variants THEN <<>>
               ELSE UnexpectedVariantMsg(kind, Variant(trait, variable).ret)]

\* defer!(@foreach_variant ..): "match $variable" with one arm
\* $kind::$variant(ref [mut] $item) => $exec per listed variant, then
\* "_ => unreachable!(..)" naming variant(&$variable) and stringify!($kind).
Defer(kind, trait, variable, variants) ==
    [matched |-> variable.tag \in variants,
     item |-> variable.payload,
     panic |-> IF variable.tag \in variants THEN <<>>
               ELSE UnexpectedVariantMsg(Variant(trait, variable).ret, kind)]

----------------------------------------------------------------------------
(* state *)

VARIABLES
    pc,            \* "expanding", "impls", "hostcheck", "compiled", "failed", "panicked"
    source,        \* the declaration as the user wrote it
    invocation,    \* the tokens of the pending sum_type! invocation
    implsArgs,     \* the arguments __sum_type_impls! was invoked with
    diagnostic,    \* the error macro expansion reported
    hostError,     \* the error the compiler reported on the expanded items
    enumItem,      \* the generated enum
    fromImpls,     \* the generated From impls
    tryFromImpls,  \* the generated TryFrom impls
    traitImpl,     \* the generated SumType impl
    value,         \* the value of the generated enum the program holds
    result         \* the last operation on it and what it returned

vars == <<pc, source, invocation, implsArgs, diagnostic, hostError, enumItem,
          fromImpls, tryFromImpls, traitImpl, value, result>>

expansion == <<pc, source, invocation, implsArgs, diagnostic, hostError, enumItem,
               fromImpls, tryFromImpls, traitImpl>>

generated == <<source, invocation, implsArgs, diagnostic, hostError, enumItem,
               fromImpls, tryFromImpls, traitImpl>>

NoArgs == [invoked |-> FALSE, enum_name |-> "", pairs |-> <<>>]

NoResult ==
    [op |-> "none", recv |-> NoValue, ty |-> "", variants |-> {}, n |-> 0,
     present |-> FALSE, payload |-> NoPayload, name |-> "", names |-> <<>>,
     expected |-> "", actual |-> "", all |-> <<>>, panic |-> <<>>, evals |-> <<>>]

Init ==
    /\ source \in Declarations
    /\ invocation = source
    /\ pc = "expanding"
    /\ implsArgs = NoArgs
    /\ diagnostic = NoDiagnostic
    /\ hostError = ""
    /\ enumItem = NoEnum
    /\ fromImpls = {}
    /\ tryFromImpls = {}
    /\ traitImpl = NoTrait
    /\ value = NoValue
    /\ result = NoResult

----------------------------------------------------------------------------
(* expansion *)

\* One expansion of sum_type!: an explicit arm emits the enum and invokes
\* __sum_type_impls!, a lazy arm invokes sum_type! again on the rewritten
\* declaration, and an input no arm matches is an error.
ExpandSumType ==
    /\ pc = "expanding"
    /\ LET arm == SumTypeArm(invocation) IN
        /\ pc' = CASE arm \in {1, 2} -> "impls"
                   [] arm \in {3, 4} -> "expanding"
                   [] OTHER -> "failed"
        /\ enumItem' = IF arm \in {1, 2} THEN EnumItem(invocation) ELSE enumItem
        /\ implsArgs' = IF arm \in {1, 2}
                        THEN [invoked |-> TRUE, enum_name |-> invocation.name,
                              pairs |-> ImplsArgs(invocation)]
                        ELSE implsArgs
        /\ invocation' = IF arm \in {3, 4} THEN LazyRewrite(invocation) ELSE invocation
        /\ diagnostic' = IF arm = 0 THEN NoRulesExpected ELSE diagnostic
    /\ UNCHANGED <<source, hostError, fromImpls, tryFromImpls, traitImpl, value, result>>

\* __sum_type_impls!: the validator, then the three synthesizers, all on the
\* same arguments.  compile_error! fails the build; the other items are
\* emitted all the same.
ExpandSumTypeImpls ==
    /\ pc = "impls"
    /\ LET e == implsArgs.enum_name
           ps == implsArgs.pairs
       IN  /\ diagnostic' = AssertMultipleVariants(e, ps)
           /\ fromImpls' = SumTypeFrom(e, ps)
           /\ tryFromImpls' = SumTypeTryFrom(e, ps)
           /\ traitImpl' = SumTypeTrait(e, ps)
           /\ pc' = IF AssertMultipleVariants(e, ps) = NoDiagnostic THEN "hostcheck" ELSE "failed"
    /\ UNCHANGED <<source, invocation, implsArgs, hostError, enumItem, value, result>>

\* The compiler on the expanded items: two variants of one name are a
\* duplicate definition, two From (or TryFrom) impls for one payload type
\* are conflicting implementations.
HostCheck ==
    /\ pc = "hostcheck"
    /\ LET vs == enumItem.variants
           dupName == \E i, j \in DOMAIN vs : i # j /\ vs[i].name = vs[j].name
           dupType == \E i, j \in DOMAIN vs : i # j /\ vs[i].ty = vs[j].ty
       IN  /\ hostError' = IF dupName THEN "E0428" ELSE IF dupType THEN "E0119" ELSE ""
           /\ pc' = IF dupName \/ dupType THEN "failed" ELSE "compiled"
    /\ UNCHANGED <<source, invocation, implsArgs, diagnostic, enumItem, fromImpls,
                   tryFromImpls, traitImpl, value, result>>

----------------------------------------------------------------------------
(* the program using the generated code *)

\* let v: Enum = p.into();
CallFrom ==
    /\ pc = "compiled"
    /\ \E impl \in fromImpls : \E p \in Payloads(impl.ty) :
        /\ value' = From(impl, p)
        /\ result' = [NoResult EXCEPT !.op = "from", !.ty = impl.ty, !.payload = p]
    /\ UNCHANGED expansion

\* v.variant()
CallVariant ==
    /\ pc = "compiled" /\ value.live
    /\ LET r == Variant(traitImpl, value) IN
        result' = [NoResult EXCEPT !.op = "variant", !.recv = value, !.name = r.ret,
                                   !.evals = r.evals]
    /\ UNCHANGED <<expansion, value>>

\* v.variants()
CallVariants ==
    /\ pc = "compiled" /\ value.live
    /\ LET r == Variants(traitImpl, value) IN
        result' = [NoResult EXCEPT !.op = "variants", !.recv = value, !.names = r.ret,
                                   !.evals = r.evals]
    /\ UNCHANGED <<expansion, value>>

\* v.downcast_ref::<T>()
CallDowncastRef ==
    /\ pc = "compiled" /\ value.live
    /\ \E T \in TypeNames :
        LET r == DowncastRef(traitImpl, value, T) IN
        result' = [NoResult EXCEPT !.op = "downcast_ref", !.recv = value, !.ty = T,
                                   !.present = Len(r) > 0,
                                   !.payload = IF Len(r) > 0 THEN r[1] ELSE NoPayload]
    /\ UNCHANGED <<expansion, value>>

\* if let Some(r) = v.downcast_mut::<T>() { *r = n; }
CallDowncastMut ==
    /\ pc = "compiled" /\ value.live
    /\ \E T \in TypeNames, n \in 0..MaxPayload :
        LET r == DowncastMut(traitImpl, value, T) IN
        /\ result' = [NoResult EXCEPT !.op = "downcast_mut", !.recv = value, !.ty = T,
                                      !.n = n, !.present = Len(r) > 0,
                                      !.payload = IF Len(r) > 0 THEN r[1] ELSE NoPayload]
        /\ value' = IF Len(r) > 0 THEN [value EXCEPT !.payload.v = n] ELSE value
    /\ UNCHANGED expansion

\* v.variant_is::<T>()
CallVariantIs ==
    /\ pc = "compiled" /\ value.live
    /\ \E T \in TypeNames :
        result' = [NoResult EXCEPT !.op = "variant_is", !.recv = value, !.ty = T,
                                   !.present = VariantIs(traitImpl, value, T)]
    /\ UNCHANGED <<expansion, value>>

\* T::try_from(v): v is moved into the call.
CallTryFrom ==
    /\ pc = "compiled" /\ value.live
    /\ \E impl \in tryFromImpls :
        LET r == TryFrom(impl, traitImpl, value) IN
        result' = [NoResult EXCEPT !.op = "try_from", !.recv = value, !.ty = impl.target,
                                   !.present = r.ok, !.payload = r.value,
                                   !.expected = r.expected, !.actual = r.actual,
                                   !.all = r.all, !.evals = r.evals]
    /\ value' = NoValue
    /\ UNCHANGED expansion

\* The variant names a defer! call may list: those of the enum.
Declared == {enumItem.variants[i].name : i \in DOMAIN enumItem.variants}

\* defer!(Enum as v; V1 | .. => |ref item| item.clone())
CallDeferRef ==
    /\ pc = "compiled" /\ value.live
    /\ \E S \in SUBSET Declared :
        LET r == Defer(enumItem.name, traitImpl, value, S) IN
        /\ result' = [NoResult EXCEPT !.op = "defer_ref", !.recv = value, !.variants = S,
                                      !.present = r.matched,
                                      !.payload = IF r.matched THEN r.item ELSE NoPayload,
                                      !.panic = r.panic]
        /\ pc' = IF r.matched THEN pc ELSE "panicked"
    /\ UNCHANGED <<generated, value>>

\* defer!(Enum as v; V1 | .. => |ref mut item| { *item = n; })
CallDeferRefMut ==
    /\ pc = "compiled" /\ value.live
    /\ \E S \in SUBSET Declared, n \in 0..MaxPayload :
        LET r == Defer(enumItem.name, traitImpl, value, S) IN
        /\ result' = [NoResult EXCEPT !.op = "defer_ref_mut", !.recv = value,
                                      !.variants = S, !.n = n, !.present = r.matched,
                                      !.panic = r.panic]
        /\ value' = IF r.matched THEN [value EXCEPT !.payload.v = n] ELSE value
        /\ pc' = IF r.matched THEN pc ELSE "panicked"
    /\ UNCHANGED generated

Next ==
    \/ ExpandSumType
    \/ ExpandSumTypeImpls
    \/ HostCheck
    \/ CallFrom
    \/ CallVariant
    \/ CallVariants
    \/ CallDowncastRef
    \/ CallDowncastMut
    \/ CallVariantIs
    \/ CallTryFrom
    \/ CallDeferRef
    \/ CallDeferRefMut

Spec == Init /\ [][Next]_vars

----------------------------------------------------------------------------
(* vocabulary of the properties: what the user declared *)

\* The name and payload type the i-th entry of the written declaration
\* stands for; a lazy entry's name is its type's.
SourceName(i) == source.entries[i].ident
SourceType(i) ==
    IF source.entries[i].ty = NoType THEN source.entries[i].ident ELSE source.entries[i].ty
SourceNames == [i \in DOMAIN source.entries |-> SourceName(i)]

SourceIsLazy ==
    /\ Len(source.entries) >= 1
    /\ \A i \in DOMAIN source.entries : source.entries[i].ty = NoType

\* Macro expansion of the declaration has finished.
Expanded == pc \in {"hostcheck", "compiled", "failed", "panicked"}

\* The evaluations that look at which variant a value holds.
TagInspections(evals) ==
    Cardinality({i \in DOMAIN evals : evals[i] \in {"match *self", "if let"}})

----------------------------------------------------------------------------
(* properties *)

\* C1: converting a payload p of type T into the union with From yields the
\* value of the declared variant V whose payload type is T, wrapping p, and
\* variant() of that value is V's name.
C1_FromTagsDeclaredVariant ==
    result.op = "from" =>
        \E i \in DOMAIN source.entries :
            /\ SourceType(i) = result.ty
            /\ value = [live |-> TRUE, tag |-> SourceName(i), payload |-> result.payload]
            /\ result.payload.ty = SourceType(i)
            /\ Variant(traitImpl, value).ret = SourceName(i)

C1_Witness ==
    /\ result.op = "from"
    /\ Len(source.entries) = 3
    /\ value.tag = SourceName(3)
    /\ value.payload.v = 1

\* C2: try_from targeting the payload type of the variant the value holds
\* succeeds and returns the payload unchanged.
C2_TryFromRoundTrip ==
    (result.op = "try_from" /\
        \E i \in DOMAIN source.entries :
            SourceName(i) = result.recv.tag /\ SourceType(i) = result.ty)
    => (result.present /\ result.payload = result.recv.payload)

C2_Witness ==
    /\ result.op = "try_from"
    /\ result.present
    /\ Len(source.entries) = 3
    /\ result.recv.tag = SourceName(2)
    /\ result.payload.v = 1

\* C3: try_from targeting the payload type of another declared variant W
\* fails with expected_variant = W's name, actual_variant = the name of the
\* variant held, and all_variants = the declared names in order = variants().
C3_TryFromWrongVariantFails ==
    result.op = "try_from" =>
        \A i \in DOMAIN source.entries :
            (SourceType(i) = result.ty /\ SourceName(i) # result.recv.tag) =>
                /\ ~result.present
                /\ result.expected = SourceName(i)
                /\ result.actual = result.recv.tag
                /\ result.all = SourceNames
                /\ result.all = Variants(traitImpl, result.recv).ret

C3_Witness ==
    /\ result.op = "try_from"
    /\ ~result.present
    /\ Len(source.entries) = 3
    /\ result.recv.tag = SourceName(2)
    /\ result.expected = SourceName(3)

\* C4: variants() is the list of declared names in declared order whichever
\* variant the value holds, and variant() is always an element of it.
C4_VariantsDeclaredOrder ==
    /\ result.op = "variants" => result.names = SourceNames
    /\ result.op = "variant" =>
        /\ result.name \in Range(SourceNames)
        /\ result.name \in Range(Variants(traitImpl, result.recv).ret)
        /\ result.name = result.recv.tag

C4_Witness ==
    /\ result.op = "variants"
    /\ Len(source.entries) = 3
    /\ result.recv.tag = SourceName(3)

\* C5: downcast_ref::<T>() is present, and is the payload, iff the variant
\* held has payload type T; variant_is::<T>() is true exactly when it is.
C5_DowncastIffPayloadType ==
    /\ result.op = "downcast_ref" =>
        \A i \in DOMAIN source.entries :
            SourceName(i) = result.recv.tag =>
                /\ result.present <=> (SourceType(i) = result.ty)
                /\ result.present => result.payload = result.recv.payload
    /\ result.op = "variant_is" =>
        /\ \A i \in DOMAIN source.entries :
                SourceName(i) = result.recv.tag =>
                    (result.present <=> (SourceType(i) = result.ty))
        /\ result.present <=> (Len(DowncastRef(traitImpl, result.recv, result.ty)) > 0)

C5_Witness ==
    /\ result.op = "downcast_ref"
    /\ ~result.present
    /\ \E i \in DOMAIN source.entries : SourceType(i) = result.ty

\* C6: of the declarations that reach the validator, one with exactly one
\* variant fails with the "must have more than one variant" diagnostic
\* naming it, and one with two or more variants gets no diagnostic and
\* expands to the enum, a From and a TryFrom impl per variant and the
\* SumType impl.
C6_ValidatorExactOnBoundary ==
    (Expanded /\ implsArgs.invoked) =>
        /\ Len(source.entries) = 1 =>
            /\ diagnostic = MoreThanOneVariantMsg(source.name)
            /\ pc = "failed"
        /\ Len(source.entries) >= 2 =>
            /\ diagnostic = NoDiagnostic
            /\ enumItem.present
            /\ enumItem.name = source.name
            /\ traitImpl.present
            /\ \A i \in DOMAIN source.entries :
                /\ enumItem.variants[i] = [name |-> SourceName(i), ty |-> SourceType(i)]
                /\ \E f \in fromImpls : f.ty = SourceType(i)
                /\ \E t \in tryFromImpls : t.target = SourceType(i)

C6_Witness ==
    /\ Len(source.entries) = 1
    /\ source.name = "OneVariant"
    /\ diagnostic = MoreThanOneVariantMsg("OneVariant")
    /\ pc = "failed"

\* C7 (as claimed): every declaration with fewer than two variants, the
\* one with none included, is rejected with a diagnostic.
C7_FewerThanTwoRejected ==
    (Expanded /\ Len(source.entries) < 2) => (pc = "failed" /\ diagnostic # NoDiagnostic)

\* C8 (as claimed): a lazy declaration, "pub enum" or "enum", reaches the
\* validator and the synthesizers as the explicit declaration whose
\* variants are named after their payload types, so that variants() lists
\* those names.
C8_LazyCanonicalized ==
    (Expanded /\ SourceIsLazy) =>
        /\ implsArgs.invoked
        /\ implsArgs.pairs = [i \in DOMAIN source.entries |->
                                [name |-> source.entries[i].ident, ty |-> source.entries[i].ident]]
        /\ traitImpl.list = SourceNames

\* C9: defer! over a value and a set S of variant names: when the variant
\* held is in S the expression gets the payload (the read form yields its
\* result, the mutate form writes the payload and leaves the variant as it
\* was); when it is not, nothing is yielded and the call panics with the
\* name of the variant held and the name of the enum.
C9_DeferMatchesListedVariants ==
    /\ result.op = "defer_ref" =>
        /\ value = result.recv
        /\ result.recv.tag \in result.variants =>
            /\ result.present
            /\ result.payload = result.recv.payload
            /\ result.panic = <<>>
            /\ pc = "compiled"
        /\ result.recv.tag \notin result.variants =>
            /\ ~result.present
            /\ result.panic = UnexpectedVariantMsg(result.recv.tag, source.name)
            /\ pc = "panicked"
    /\ result.op = "defer_ref_mut" =>
        /\ result.recv.tag \in result.variants =>
            /\ value = [result.recv EXCEPT !.payload.v = result.n]
            /\ value.tag = result.recv.tag
            /\ result.panic = <<>>
            /\ pc = "compiled"
        /\ result.recv.tag \notin result.variants =>
            /\ value = result.recv
            /\ result.panic = UnexpectedVariantMsg(result.recv.tag, source.name)
            /\ pc = "panicked"

C9_Witness ==
    /\ result.op = "defer_ref"
    /\ pc = "panicked"
    /\ Cardinality(result.variants) = 2
    /\ result.panic = UnexpectedVariantMsg("First", "MySumType")

\* C10 (as claimed): one call of try_from looks at which variant the value
\* holds exactly once.
C10_TagInspectedOnce ==
    result.op = "try_from" => TagInspections(result.evals) = 1

\* C10 (amended): one call of try_from looks at which variant the value
\* holds exactly twice, whether it succeeds or fails: first in variant(),
\* then in the if-let; variants() does not look at it.
C10_TagInspectedTwice ==
    result.op = "try_from" =>
        /\ TagInspections(result.evals) = 2
        /\ result.evals = <<"match *self", "if let">>

C10_Witness ==
    /\ result.op = "try_from"
    /\ result.present
    /\ Len(result.evals) = 2

====
